---- MODULE Spec2Model ----
(***************************************************************************)
(* A model of src/core/tree-sitter/parseFile.ts: the outline extraction of *)
(* parseFile (one call, step by step) and the lazily constructed shared     *)
(* LanguageParser under interleaved calls.                                  *)
(*                                                                          *)
(* A JavaScript string is a sequence of one-character strings, so that      *)
(* trim, includes, endsWith, indexOf, substring, split and join are         *)
(* computed, not assumed.  A capture name is the sequence of its            *)
(* dot-separated segments ("definition.function" is                         *)
(* <<"definition", "function">>), and name.includes(...) is a search for a  *)
(* run of segments.  Rows are 0-based as in the source; sequences are       *)
(* 1-based, so row r of lines is lines[r + 1].                              *)
(***************************************************************************)
EXTENDS Integers, Sequences, FiniteSets, TLC

\* ------------------------------------------------------------------------
\* Bounds of the model
\* ------------------------------------------------------------------------

\* the largest number of lines of a file
MaxLines == 2

\* the largest number of captures query.captures returns
MaxCaps == 2

\* the number of parseFile calls that may be in flight together
NumCalls == 3

\* ------------------------------------------------------------------------
\* String primitives of JavaScript used by parseFile
\* ------------------------------------------------------------------------

Min(a, b) == IF a < b THEN a ELSE b

\* the characters String.prototype.trim removes
IsWhitespace(ch) == ch \in {" ", "\n", "\t"}

RECURSIVE TrimStart(_)
TrimStart(s) ==
  IF s # <<>> /\ IsWhitespace(Head(s)) THEN TrimStart(Tail(s)) ELSE s

RECURSIVE TrimEnd(_)
TrimEnd(s) ==
  IF s # <<>> /\ IsWhitespace(s[Len(s)])
  THEN TrimEnd(SubSeq(s, 1, Len(s) - 1))
  ELSE s

\* s.trim()
Trim(s) == TrimEnd(TrimStart(s))

\* pat occurs in s at the 1-based position k
OccursAt(s, pat, k) ==
  /\ k + Len(pat) - 1 <= Len(s)
  /\ SubSeq(s, k, k + Len(pat) - 1) = pat

\* s.indexOf(pat): 0-based position of the first occurrence, -1 when absent
IndexOf(s, pat) ==
  LET hits == {k \in 1..Len(s) : OccursAt(s, pat, k)}
  IN  IF hits = {} THEN -1
      ELSE (CHOOSE k \in hits : \A h \in hits : k <= h) - 1

\* s.includes(pat)
Includes(s, pat) == IndexOf(s, pat) # -1

\* s.endsWith(pat)
EndsWith(s, pat) ==
  /\ Len(s) >= Len(pat)
  /\ SubSeq(s, Len(s) - Len(pat) + 1, Len(s)) = pat

\* s.substring(0, n)
Substring0(s, n) == SubSeq(s, 1, n)

\* arr.slice(from, to): rows from (inclusive) to to (exclusive), clamped
Slice(arr, from, to) == SubSeq(arr, from + 1, Min(to, Len(arr)))

\* arr.join(sep)
RECURSIVE Join(_, _)
Join(arr, sep) ==
  IF arr = <<>> THEN <<>>
  ELSE IF Len(arr) = 1 THEN arr[1]
  ELSE arr[1] \o sep \o Join(Tail(arr), sep)

\* s.split('\n'): always at least one element
RECURSIVE Split(_)
Split(s) ==
  LET k == IndexOf(s, <<"\n">>)
  IN  IF k = -1 THEN <<s>>
      ELSE <<Substring0(s, k)>> \o Split(SubSeq(s, k + 2, Len(s)))

NL == <<"\n">>
BlankLine == <<"\n", "\n">>

\* ------------------------------------------------------------------------
\* Inputs: file contents and the captures the query returns
\* ------------------------------------------------------------------------

\* source lines the files are made of
LinePool ==
  { <<"f", "(", ")", " ", "{">>,                       \* f() {
    <<"f", "(", ")">>,                                 \* f()
    <<"f", "(", "a", "=", "{", "}", ")", ":">>,        \* f(a={}):
    <<"{", " ", "f", "(", ")", " ", "}">>,             \* { f() }
    <<>>,                                              \* an empty line
    <<" ", "e", "x", "t", "e", "n", "d", "s", " ", "g", " ", "{">> }

Files == UNION { [1..n -> LinePool] : n \in 1..MaxLines }

FileContents == { Join(f, NL) : f \in Files }

\* capture names of the query layer
CaptureNames ==
  { <<"name", "definition", "function">>,
    <<"definition", "method">>,
    <<"definition", "class">>,
    <<"definition", "interface">>,
    <<"definition", "import">>,
    <<"definition", "comment">>,
    <<"definition", "property">>,
    <<"name", "reference", "call">> }

\* the row ranges of the nodes of a file of n lines: startRow <= endRow, rows
\* up to n, so a node may start or end one row past the last line
RowRanges(n) ==
  { r \in [startRow : 0..n, endRow : 0..n] : r.startRow <= r.endRow }

\* the captures of a file of n lines
CapturesOf(n) ==
  { [startRow |-> r.startRow, endRow |-> r.endRow, name |-> t] :
      r \in RowRanges(n), t \in CaptureNames }

\* the lists query.captures may return, in any order
CaptureLists(n) == UNION { [1..k -> CapturesOf(n)] : k \in 0..MaxCaps }

\* captures.sort((a, b) => a.startRow - b.startRow): Array.prototype.sort is
\* stable, so a capture goes behind every capture that does not compare
\* greater and was returned before it
InsertCapture(sorted, c) ==
  LET k == Cardinality({j \in 1..Len(sorted) :
                          sorted[j].startRow - c.startRow <= 0})
  IN  SubSeq(sorted, 1, k) \o <<c>> \o SubSeq(sorted, k + 1, Len(sorted))

RECURSIVE StableSort(_)
StableSort(caps) ==
  IF caps = <<>> THEN <<>>
  ELSE InsertCapture(StableSort(SubSeq(caps, 1, Len(caps) - 1)),
                     caps[Len(caps)])

\* a sort that was left out: the captures stay in the order of the query
SortCapturesOmitted(caps) == caps

SortCaptures(caps) == StableSort(caps)

\* ------------------------------------------------------------------------
\* Classification of a capture (parseFile.ts 66-84)
\* ------------------------------------------------------------------------

isCommentCapture(name) == Includes(name, <<"definition", "comment">>)

isTypeDefinitionCapture(name) ==
  \/ Includes(name, <<"definition", "interface">>)
  \/ Includes(name, <<"definition", "type">>)
  \/ Includes(name, <<"definition", "enum">>)
  \/ Includes(name, <<"definition", "class">>)

isImportCapture(name) == Includes(name, <<"definition", "import">>)

isFunctionCapture(name) ==
  \/ Includes(name, <<"definition", "function">>)
  \/ Includes(name, <<"definition", "method">>)

isPropertyCapture(name) == Includes(name, <<"definition", "property">>)

isFullCapture(name) ==
  \/ isCommentCapture(name)
  \/ isTypeDefinitionCapture(name)
  \/ isImportCapture(name)
  \/ isPropertyCapture(name)

isClassCapture(name) ==
  isTypeDefinitionCapture(name) /\ Includes(name, <<"definition", "class">>)

\* the branch of the if/else chain a name takes, as a category
Category(name) ==
  IF isFunctionCapture(name) THEN "Signature"
  ELSE IF isClassCapture(name) THEN "ClassDefinition"
  ELSE IF isTypeDefinitionCapture(name) THEN "TypeDefinition"
  ELSE IF isImportCapture(name) THEN "Import"
  ELSE IF isCommentCapture(name) THEN "Comment"
  ELSE IF isPropertyCapture(name) THEN "Property"
  ELSE "Irrelevant"

DedupCategories ==
  {"Signature", "ClassDefinition", "TypeDefinition", "Import", "Property"}

\* ------------------------------------------------------------------------
\* The handling of one capture (parseFile.ts 56-170)
\* ------------------------------------------------------------------------

\* lines[row] is undefined or the empty string
LineMissing(lines, row) == row >= Len(lines) \/ lines[row + 1] = <<>>

\* the test that ends the scan for the end of the parameter list
EndsSignature(line) ==
  /\ Includes(line, <<")">>)
  /\ \/ EndsWith(line, <<"{">>)
     \/ EndsWith(line, <<"=", ">">>)
     \/ EndsWith(line, <<"-", ">">>)
     \/ EndsWith(line, <<":">>)
     \/ EndsWith(line, <<";">>)

\* the scan of rows i..endRow: the first row that ends the signature;
\* lines[i].trim() throws a TypeError on a row past the last line; when no
\* row ends the signature, signatureEndRow keeps its initial value startRow
RECURSIVE ScanFrom(_, _, _, _)
ScanFrom(lines, i, endRow, fallback) ==
  IF i > endRow THEN [threw |-> FALSE, row |-> fallback]
  ELSE IF i >= Len(lines) THEN [threw |-> TRUE, row |-> fallback]
  ELSE IF EndsSignature(Trim(lines[i + 1])) THEN [threw |-> FALSE, row |-> i]
  ELSE ScanFrom(lines, i + 1, endRow, fallback)

\* a scan that falls back to the whole span
ScanSignatureEndWholeSpan(lines, startRow, endRow) ==
  ScanFrom(lines, startRow, endRow, endRow)

ScanSignatureEnd(lines, startRow, endRow) ==
  ScanFrom(lines, startRow, endRow, startRow)

\* the last line of a signature without its implementation part
RemoveImplementation(lastLine) ==
  IF lastLine = <<>> THEN lastLine
  ELSE IF Includes(lastLine, <<"{">>)
    THEN Trim(Substring0(lastLine, IndexOf(lastLine, <<"{">>)))
  ELSE IF Includes(lastLine, <<"=", ">">>)
    THEN Trim(Substring0(lastLine, IndexOf(lastLine, <<"=", ">">>)))
  ELSE IF Includes(lastLine, <<"-", ">">>)
    THEN Trim(Substring0(lastLine, IndexOf(lastLine, <<"-", ">">>)))
  ELSE lastLine

\* the selected lines of a function or method capture
SignatureLines(lines, startRow, signatureEndRow) ==
  LET sel == Slice(lines, startRow, signatureEndRow + 1)
      lastLineIndex == Len(sel)
  IN  [k \in 1..Len(sel) |->
         IF k = lastLineIndex THEN RemoveImplementation(sel[k]) ELSE sel[k]]

\* line.replace(/\{.*$/, '').trim()
StripBody(line) ==
  IF Includes(line, <<"{">>)
  THEN Trim(Substring0(line, IndexOf(line, <<"{">>)))
  ELSE Trim(line)

\* the selected lines of a class capture; the caller has checked that
\* lines[startRow + 1] exists when startRow + 1 <= endRow
ClassLines(lines, startRow, endRow) ==
  LET first == <<lines[startRow + 1]>>
      sel == IF startRow + 1 <= endRow
             THEN LET nextLine == Trim(lines[startRow + 2])
                  IN  IF \/ Includes(nextLine, <<"e", "x", "t", "e", "n", "d", "s">>)
                         \/ Includes(nextLine,
                              <<"i", "m", "p", "l", "e", "m", "e", "n", "t", "s">>)
                      THEN Append(first, nextLine)
                      ELSE first
             ELSE first
  IN  [k \in 1..Len(sel) |-> StripBody(sel[k])]

\* lines.slice(startRow, endRow + 1).join('\n').trim()
SpanText(lines, startRow, endRow) ==
  Trim(Join(Slice(lines, startRow, endRow + 1), NL))

\* a membership test that never finds the key
HasNever(processed, key) == FALSE

\* processedChunks.has(key)
Has(processed, key) == key \in processed

Skip(processed) ==
  [kind |-> "skip", text |-> <<>>, processed |-> processed, sigEnd |-> -1]

Throw(processed) ==
  [kind |-> "throw", text |-> <<>>, processed |-> processed, sigEnd |-> -1]

\* the dedup of a deduplicating branch, then the push of line 168
PushUnlessProcessed(processed, key, sigEnd) ==
  IF Has(processed, key)
  THEN [kind |-> "skip", text |-> <<>>, processed |-> processed,
        sigEnd |-> sigEnd]
  ELSE [kind |-> "push", text |-> key,
        processed |-> processed \cup {key}, sigEnd |-> sigEnd]

\* 87-128
FunctionBranch(lines, processed, c) ==
  LET scan == ScanSignatureEnd(lines, c.startRow, c.endRow)
  IN  IF scan.threw THEN Throw(processed)
      ELSE PushUnlessProcessed(
             processed,
             Trim(Join(SignatureLines(lines, c.startRow, scan.row), NL)),
             scan.row)

\* 130-151
ClassBranch(lines, processed, c) ==
  IF c.startRow + 1 <= c.endRow /\ c.startRow + 1 >= Len(lines)
  THEN Throw(processed)
  ELSE PushUnlessProcessed(
         processed,
         Trim(Join(ClassLines(lines, c.startRow, c.endRow), NL)),
         -1)

\* 153-160
TypeOrImportBranch(lines, processed, c) ==
  PushUnlessProcessed(processed, SpanText(lines, c.startRow, c.endRow), -1)

\* a comment branch that dedups like the other full captures
CommentBranchDeduped(lines, processed, c) ==
  PushUnlessProcessed(processed, SpanText(lines, c.startRow, c.endRow), -1)

\* 162-169
CommentBranch(lines, processed, c) ==
  [kind |-> "push", text |-> SpanText(lines, c.startRow, c.endRow),
   processed |-> processed, sigEnd |-> -1]

\* one iteration of the capture loop
ProcessCapture(lines, processed, c) ==
  IF LineMissing(lines, c.startRow) THEN Skip(processed)
  ELSE IF ~(isFullCapture(c.name) \/ isFunctionCapture(c.name))
    THEN Skip(processed)
  ELSE IF isFunctionCapture(c.name) THEN FunctionBranch(lines, processed, c)
  ELSE IF isClassCapture(c.name) THEN ClassBranch(lines, processed, c)
  ELSE IF isTypeDefinitionCapture(c.name) \/ isImportCapture(c.name)
    THEN TypeOrImportBranch(lines, processed, c)
  ELSE IF isCommentCapture(c.name) THEN CommentBranch(lines, processed, c)
  ELSE Skip(processed)

\* ------------------------------------------------------------------------
\* State
\* ------------------------------------------------------------------------

VARIABLES
  \* one parseFile call, followed statement by statement
  pc,               \* the statement the call is at
  fileContent,      \* the argument fileContent
  lines,            \* fileContent.split('\n')
  captures,         \* the sorted captures, each with pos, its place in the
                    \* list query.captures returned
  index,            \* the number of captures the loop has handled
  processedChunks,  \* the Set processedChunks
  chunks,           \* the array chunks
  origin,           \* for every element of chunks, the capture that pushed it
  signatureEndRow,  \* signatureEndRow of the capture handled last, -1 if it
                    \* was no function capture that reached line 106
  fault,            \* the step that raised a fault, "none" if none did
  caught,           \* the catch block of line 172 ran
  outcome,          \* "pending", "string", "undefined" or "rejected"
  result,           \* the string returned
  \* interleaved parseFile calls and the shared LanguageParser
  languageParserSingleton,  \* "null" or "LanguageParser"
  constructions,            \* how often new LanguageParser() ran
  initState,                \* init(): "notCalled", "pending", "resolved", "rejected"
  initCalls,                \* how often init() was called
  callPc,                   \* per call, the statement it is at
  usedUninitialised         \* per call, it used the parser before init() resolved

pvars == <<pc, fileContent, lines, captures, index, processedChunks, chunks,
           origin, signatureEndRow, fault, caught, outcome, result>>

cvars == <<languageParserSingleton, constructions, initState, initCalls,
           callPc, usedUninitialised>>

vars == <<pvars, cvars>>

Calls == 1..NumCalls

\* ------------------------------------------------------------------------
\* One parseFile call (parseFile.ts 31-177)
\* ------------------------------------------------------------------------

PipelineInit ==
  /\ pc = "getLanguageParserSingleton"
  /\ fileContent \in FileContents
  /\ lines = <<>>
  /\ captures = <<>>
  /\ index = 0
  /\ processedChunks = {}
  /\ chunks = <<>>
  /\ origin = <<>>
  /\ signatureEndRow = -1
  /\ fault = "none"
  /\ caught = FALSE
  /\ outcome = "pending"
  /\ result = <<>>

ConcIdle ==
  /\ languageParserSingleton = "null"
  /\ constructions = 0
  /\ initState = "notCalled"
  /\ initCalls = 0
  /\ callPc = [c \in Calls |-> "start"]
  /\ usedUninitialised = [c \in Calls |-> FALSE]

Init == PipelineInit /\ ConcIdle

\* 32: await getLanguageParserSingleton() resolves
GetLanguageParser ==
  /\ pc = "getLanguageParserSingleton"
  /\ pc' = "split"
  /\ UNCHANGED <<fileContent, lines, captures, index, processedChunks, chunks,
                 origin, signatureEndRow, fault, caught, outcome, result>>

\* 35-38
SplitLines ==
  /\ pc = "split"
  /\ lines' = Split(fileContent)
  /\ IF Len(lines') < 1
     THEN pc' = "returned" /\ outcome' = "string"
     ELSE pc' = "guessTheLang" /\ outcome' = outcome
  /\ UNCHANGED <<fileContent, captures, index, processedChunks, chunks,
                 origin, signatureEndRow, fault, caught, result>>

\* 40-43: guessTheLang knows the language of the path or returns undefined
GuessTheLang ==
  /\ pc = "guessTheLang"
  /\ \E supported \in BOOLEAN :
       IF supported
       THEN pc' = "getQueryForLang" /\ outcome' = outcome
       ELSE pc' = "returned" /\ outcome' = "undefined"
  /\ UNCHANGED <<fileContent, lines, captures, index, processedChunks, chunks,
                 origin, signatureEndRow, fault, caught, result>>

\* 45
GetQueryForLang ==
  /\ pc = "getQueryForLang"
  /\ pc' = "getParserForLang"
  /\ UNCHANGED <<fileContent, lines, captures, index, processedChunks, chunks,
                 origin, signatureEndRow, fault, caught, outcome, result>>

\* 46-48
GetParserForLang ==
  /\ pc = "getParserForLang"
  /\ pc' = "parse"
  /\ processedChunks' = {}
  /\ chunks' = <<>>
  /\ UNCHANGED <<fileContent, lines, captures, index, origin, signatureEndRow,
                 fault, caught, outcome, result>>

\* 32, 45, 46: the awaited promise rejects; no try block is open, so the
\* promise parseFile returned rejects
AwaitRejects ==
  /\ pc \in {"getLanguageParserSingleton", "getQueryForLang", "getParserForLang"}
  /\ fault' = pc
  /\ pc' = "rejected"
  /\ outcome' = "rejected"
  /\ UNCHANGED <<fileContent, lines, captures, index, processedChunks, chunks,
                 origin, signatureEndRow, caught, result>>

\* 52-54: parse, query, sort
ParseAndQuery ==
  /\ pc = "parse"
  /\ \E caps \in CaptureLists(Len(lines)) :
       captures' = SortCaptures(
         [k \in 1..Len(caps) |->
            [startRow |-> caps[k].startRow, endRow |-> caps[k].endRow,
             name |-> caps[k].name, pos |-> k]])
  /\ index' = 0
  /\ pc' = "loop"
  /\ UNCHANGED <<fileContent, lines, processedChunks, chunks, origin,
                 signatureEndRow, fault, caught, outcome, result>>

\* a fault of parser.parse or query.captures that leaves the function
ParseOrQueryThrowsUncaught ==
  /\ pc = "parse"
  /\ fault' = "parse"
  /\ pc' = "rejected"
  /\ outcome' = "rejected"
  /\ UNCHANGED <<fileContent, lines, captures, index, processedChunks, chunks,
                 origin, signatureEndRow, caught, result>>

\* 52-53, 172-174: parser.parse or query.captures throws inside the try block
ParseOrQueryThrows ==
  /\ pc = "parse"
  /\ fault' = "parse"
  /\ caught' = TRUE
  /\ pc' = "return"
  /\ UNCHANGED <<fileContent, lines, captures, index, processedChunks, chunks,
                 origin, signatureEndRow, outcome, result>>

\* 56-171: one iteration of the loop; a TypeError ends the loop in the catch
\* block
HandleCapture ==
  /\ pc = "loop"
  /\ index < Len(captures)
  /\ LET c == captures[index + 1]
         out == ProcessCapture(lines, processedChunks, c)
     IN  /\ index' = index + 1
         /\ processedChunks' = out.processed
         /\ signatureEndRow' = out.sigEnd
         /\ chunks' = IF out.kind = "push" THEN Append(chunks, out.text)
                      ELSE chunks
         /\ origin' = IF out.kind = "push" THEN Append(origin, c) ELSE origin
         /\ IF out.kind = "throw"
            THEN pc' = "return" /\ caught' = TRUE /\ fault' = "capture"
            ELSE pc' = pc /\ caught' = caught /\ fault' = fault
  /\ UNCHANGED <<fileContent, lines, captures, outcome, result>>

\* 176
Return ==
  /\ \/ pc = "return"
     \/ pc = "loop" /\ index = Len(captures)
  /\ result' = Join(chunks, BlankLine)
  /\ outcome' = "string"
  /\ pc' = "returned"
  /\ UNCHANGED <<fileContent, lines, captures, index, processedChunks, chunks,
                 origin, signatureEndRow, fault, caught>>

Next ==
  \/ (GetLanguageParser /\ UNCHANGED cvars)
  \/ (SplitLines /\ UNCHANGED cvars)
  \/ (GuessTheLang /\ UNCHANGED cvars)
  \/ (GetQueryForLang /\ UNCHANGED cvars)
  \/ (GetParserForLang /\ UNCHANGED cvars)
  \/ (AwaitRejects /\ UNCHANGED cvars)
  \/ (ParseAndQuery /\ UNCHANGED cvars)
  \/ (ParseOrQueryThrows /\ UNCHANGED cvars)
  \/ (HandleCapture /\ UNCHANGED cvars)
  \/ (Return /\ UNCHANGED cvars)

Spec == Init /\ [][Next]_vars

\* ------------------------------------------------------------------------
\* Interleaved calls and the singleton (parseFile.ts 7-15, 31-46)
\*
\* JavaScript runs each call without interruption up to its next await, so
\* an action is the code between two awaits.
\* ------------------------------------------------------------------------

ConcInit ==
  /\ ConcIdle
  /\ pc = "notCalled"
  /\ fileContent = <<>>
  /\ lines = <<>>
  /\ captures = <<>>
  /\ index = 0
  /\ processedChunks = {}
  /\ chunks = <<>>
  /\ origin = <<>>
  /\ signatureEndRow = -1
  /\ fault = "none"
  /\ caught = FALSE
  /\ outcome = "pending"
  /\ result = <<>>

\* a test of the singleton that finds it missing every time
SingletonMissingAlways == TRUE

\* 10: !languageParserSingleton
SingletonMissing == languageParserSingleton = "null"

\* 32, 9-12: the call enters getLanguageParserSingleton; it constructs the
\* parser and awaits init(), or finds the singleton set and returns it
EnterGetSingleton(c) ==
  /\ callPc[c] = "start"
  /\ IF SingletonMissing
     THEN /\ languageParserSingleton' = "LanguageParser"
          /\ constructions' = constructions + 1
          /\ initCalls' = initCalls + 1
          /\ initState' = "pending"
          /\ callPc' = [callPc EXCEPT ![c] = "awaitInit"]
     ELSE /\ callPc' = [callPc EXCEPT ![c] = "gotParser"]
          /\ UNCHANGED <<languageParserSingleton, constructions, initCalls,
                         initState>>
  /\ UNCHANGED usedUninitialised

\* init() of the LanguageParser resolves
InitResolves ==
  /\ initState = "pending"
  /\ initState' = "resolved"
  /\ UNCHANGED <<languageParserSingleton, constructions, initCalls, callPc,
                 usedUninitialised>>

\* init() of the LanguageParser rejects; the singleton stays set
InitRejects ==
  /\ initState = "pending"
  /\ initState' = "rejected"
  /\ UNCHANGED <<languageParserSingleton, constructions, initCalls, callPc,
                 usedUninitialised>>

\* 12-14: the call that awaited init() goes on, or rejects with init()
AfterInit(c) ==
  /\ callPc[c] = "awaitInit"
  /\ initState \in {"resolved", "rejected"}
  /\ callPc' = [callPc EXCEPT ![c] =
                  IF initState = "resolved" THEN "gotParser" ELSE "rejected"]
  /\ UNCHANGED <<languageParserSingleton, constructions, initCalls, initState,
                 usedUninitialised>>

\* 35-45: split, guessTheLang, and the call of getQueryForLang
UseGuessTheLang(c) ==
  /\ callPc[c] = "gotParser"
  /\ usedUninitialised' =
       [usedUninitialised EXCEPT ![c] = @ \/ initState # "resolved"]
  /\ \E supported \in BOOLEAN :
       callPc' = [callPc EXCEPT ![c] =
                    IF supported THEN "getQueryForLang" ELSE "returned"]
  /\ UNCHANGED <<languageParserSingleton, constructions, initCalls, initState>>

\* 45-46: getQueryForLang resolves, the call of getParserForLang
UseGetParserForLang(c) ==
  /\ callPc[c] = "getQueryForLang"
  /\ usedUninitialised' =
       [usedUninitialised EXCEPT ![c] = @ \/ initState # "resolved"]
  /\ callPc' = [callPc EXCEPT ![c] = "getParserForLang"]
  /\ UNCHANGED <<languageParserSingleton, constructions, initCalls, initState>>

\* 46-176: getParserForLang resolves; the rest of the call has no await
RunToReturn(c) ==
  /\ callPc[c] = "getParserForLang"
  /\ callPc' = [callPc EXCEPT ![c] = "returned"]
  /\ UNCHANGED <<languageParserSingleton, constructions, initCalls, initState,
                 usedUninitialised>>

\* 45, 46: getQueryForLang or getParserForLang rejects
ProviderRejects(c) ==
  /\ callPc[c] \in {"getQueryForLang", "getParserForLang"}
  /\ callPc' = [callPc EXCEPT ![c] = "rejected"]
  /\ UNCHANGED <<languageParserSingleton, constructions, initCalls, initState,
                 usedUninitialised>>

ConcNext ==
  \/ (\E c \in Calls : EnterGetSingleton(c) /\ UNCHANGED pvars)
  \/ (InitResolves /\ UNCHANGED pvars)
  \/ (InitRejects /\ UNCHANGED pvars)
  \/ (\E c \in Calls : AfterInit(c) /\ UNCHANGED pvars)
  \/ (\E c \in Calls : UseGuessTheLang(c) /\ UNCHANGED pvars)
  \/ (\E c \in Calls : UseGetParserForLang(c) /\ UNCHANGED pvars)
  \/ (\E c \in Calls : RunToReturn(c) /\ UNCHANGED pvars)
  \/ (\E c \in Calls : ProviderRejects(c) /\ UNCHANGED pvars)

ConcSpec == ConcInit /\ [][ConcNext]_vars

\* ------------------------------------------------------------------------
\* Properties
\* ------------------------------------------------------------------------

CategoryOf(c) == Category(c.name)

\* the capture the loop handled last
LastHandled == captures[index]

\* chunk i was pushed by capture c
PushedAs(c, i) == i \in 1..Len(origin) /\ origin[i] = c

Emitted(c) == \E i \in 1..Len(origin) : PushedAs(c, i)

\* the loop has handled capture number k of the sorted list without a fault
HandledNormally(k) ==
  /\ pc \in {"loop", "return", "returned"}
  /\ k \in 1..index
  /\ ~(fault = "capture" /\ k = index)

\* C1: no two chunks pushed by captures of a deduplicating category have the
\* same text, also across categories, and every such chunk is a key of the
\* processed set, which holds nothing else: a pushed key was new when its
\* capture was handled.
C1_NoDuplicateDedupChunks ==
  /\ \A i, j \in 1..Len(chunks) :
       (/\ i < j
        /\ CategoryOf(origin[i]) \in DedupCategories
        /\ CategoryOf(origin[j]) \in DedupCategories)
       => chunks[i] # chunks[j]
  /\ processedChunks =
       {chunks[i] : i \in {k \in 1..Len(chunks) :
                             CategoryOf(origin[k]) \in DedupCategories}}

\* two captures of different deduplicating categories had the same final
\* text; the first pushed its chunk and the second was dropped
C1_Witness ==
  /\ pc = "returned"
  /\ fault = "none"
  /\ \E a, b \in 1..Len(captures) :
       /\ a < b
       /\ CategoryOf(captures[a]) \in DedupCategories \ {"Property"}
       /\ CategoryOf(captures[b]) \in DedupCategories \ {"Property"}
       /\ CategoryOf(captures[a]) # CategoryOf(captures[b])
       /\ ~LineMissing(lines, captures[b].startRow)
       /\ Emitted(captures[a])
       /\ ~Emitted(captures[b])

\* C2 as stated: two Comment captures with in-range start rows and the same
\* span text both produce a chunk.  Stated for a call that raised no fault
\* and for a span text that is not empty.
C2_Original ==
  (pc = "returned" /\ fault = "none") =>
    \A a, b \in 1..Len(captures) :
      (/\ a # b
       /\ CategoryOf(captures[a]) = "Comment"
       /\ CategoryOf(captures[b]) = "Comment"
       /\ captures[a].startRow < Len(lines)
       /\ captures[b].startRow < Len(lines)
       /\ SpanText(lines, captures[a].startRow, captures[a].endRow) # <<>>
       /\ SpanText(lines, captures[a].startRow, captures[a].endRow)
            = SpanText(lines, captures[b].startRow, captures[b].endRow))
      => (Emitted(captures[a]) /\ Emitted(captures[b]))

\* C2 amended: every Comment capture the loop handles whose start-row line
\* exists and is not empty pushes its trimmed span text, whatever was pushed
\* before, and the processed set holds no key of a Comment capture.
C2_CommentsNeverDeduped ==
  /\ \A k \in 1..Len(captures) :
       (/\ HandledNormally(k)
        /\ CategoryOf(captures[k]) = "Comment"
        /\ ~LineMissing(lines, captures[k].startRow))
       => \E i \in 1..Len(chunks) :
            /\ PushedAs(captures[k], i)
            /\ chunks[i] = SpanText(lines, captures[k].startRow,
                                    captures[k].endRow)
  /\ processedChunks \subseteq
       {chunks[i] : i \in {k \in 1..Len(chunks) :
                             CategoryOf(origin[k]) # "Comment"}}

\* a Comment capture pushed a text that an earlier capture had pushed
C2_Witness ==
  /\ pc = "returned"
  /\ \E i, j \in 1..Len(chunks) :
       /\ i < j
       /\ chunks[i] = chunks[j]
       /\ CategoryOf(origin[j]) = "Comment"

\* C3: the chunks are in non-decreasing order of the start row of their
\* captures, and chunks of captures with the same start row are in the order
\* in which the query returned the captures.
C3_ChunksInRowOrder ==
  \A i, j \in 1..Len(origin) :
    i < j =>
      /\ origin[i].startRow <= origin[j].startRow
      /\ origin[i].startRow = origin[j].startRow => origin[i].pos < origin[j].pos

\* the query returned a later row first, and both captures pushed a chunk
C3_Witness ==
  /\ pc = "returned"
  /\ \E i, j \in 1..Len(origin) :
       /\ i < j
       /\ origin[i].pos > origin[j].pos
       /\ origin[i].startRow < origin[j].startRow

\* C4: a Property capture whose start-row line is present and whose trimmed
\* span text no earlier chunk has, pushes exactly that text.
C4_PropertyEmitted ==
  (pc = "returned" /\ fault = "none") =>
    \A k \in 1..Len(captures) :
      (/\ CategoryOf(captures[k]) = "Property"
       /\ ~LineMissing(lines, captures[k].startRow)
       /\ \A i \in 1..Len(chunks) :
            chunks[i] # SpanText(lines, captures[k].startRow,
                                 captures[k].endRow)
              \/ origin[i] = captures[k])
      => \E i \in 1..Len(chunks) :
           /\ PushedAs(captures[k], i)
           /\ chunks[i] = SpanText(lines, captures[k].startRow,
                                   captures[k].endRow)

\* no row of the span of c ends a signature, and the span is inside the file
NoRowEndsSignature(c) ==
  /\ c.endRow < Len(lines)
  /\ \A r \in c.startRow..c.endRow : ~EndsSignature(Trim(lines[r + 1]))

\* the loop has just handled a function or method capture that reached the
\* scan
SignatureHandled ==
  /\ pc \in {"loop", "return", "returned"}
  /\ index >= 1
  /\ CategoryOf(LastHandled) = "Signature"
  /\ ~LineMissing(lines, LastHandled.startRow)

\* C5 as stated: when no row of the span ends the signature, signatureEndRow
\* is endRow.
C5_Original ==
  (SignatureHandled /\ NoRowEndsSignature(LastHandled))
    => signatureEndRow = LastHandled.endRow

\* C5 amended: when no row of a span inside the file ends the signature,
\* signatureEndRow keeps its initial value startRow, and the chunk, if one is
\* pushed, comes from the first line of the span alone.
C5_FallbackIsStartRow ==
  (SignatureHandled /\ NoRowEndsSignature(LastHandled))
    => /\ signatureEndRow = LastHandled.startRow
       /\ Emitted(LastHandled) =>
            chunks[Len(chunks)] =
              Trim(RemoveImplementation(lines[LastHandled.startRow + 1]))

\* a function capture of two rows, neither of which ends the signature
C5_Witness ==
  /\ SignatureHandled
  /\ NoRowEndsSignature(LastHandled)
  /\ LastHandled.startRow < LastHandled.endRow
  /\ lines[LastHandled.endRow + 1] # <<>>
  /\ Emitted(LastHandled)

\* C6: when the row that ended the scan ends with ':' or ';', the chunk is
\* the trimmed join of lines[startRow..signatureEndRow], nothing removed.
C6_ColonSemicolonIntact ==
  (/\ SignatureHandled
   /\ signatureEndRow >= 0
   /\ EndsSignature(Trim(lines[signatureEndRow + 1]))
   /\ \/ EndsWith(Trim(lines[signatureEndRow + 1]), <<":">>)
      \/ EndsWith(Trim(lines[signatureEndRow + 1]), <<";">>)
   /\ Emitted(LastHandled))
  => chunks[Len(chunks)] =
       Trim(Join(Slice(lines, LastHandled.startRow, signatureEndRow + 1), NL))

\* C7: no chunk is empty after trimming.
C7_NoEmptyChunk ==
  \A i \in 1..Len(chunks) : Trim(chunks[i]) # <<>>

\* C8 as stated: no fault of any step leaves the call.
C8_Original == outcome # "rejected"

\* C8 amended: a fault of parser.parse, of query.captures or of the handling
\* of a capture is caught, and the call returns the string of the chunks
\* pushed so far; only a rejection of getLanguageParserSingleton,
\* getQueryForLang or getParserForLang leaves the call; a call that returns
\* returns a string or undefined.
C8_TryBlockFaultsCaught ==
  /\ fault \in {"parse", "capture"} =>
       /\ caught
       /\ outcome # "rejected"
       /\ pc \in {"return", "returned"}
       /\ pc = "returned" => (outcome = "string" /\ result = Join(chunks, BlankLine))
  /\ outcome = "rejected" =>
       fault \in {"getLanguageParserSingleton", "getQueryForLang",
                  "getParserForLang"}
  /\ pc = "returned" => outcome \in {"string", "undefined"}

\* the handling of a capture threw after a chunk had been pushed, and the
\* call returned that chunk
C8_Witness ==
  /\ pc = "returned"
  /\ fault = "capture"
  /\ outcome = "string"
  /\ result # <<>>

\* C9: the LanguageParser is constructed, and its init() called, at most
\* once, however the calls interleave.
C9_ConstructedOnce == constructions <= 1 /\ initCalls <= 1

\* a second call entered getLanguageParserSingleton while the first still
\* awaited init()
C9_Witness ==
  \E c, d \in Calls :
    /\ c # d
    /\ callPc[c] = "awaitInit"
    /\ callPc[d] = "gotParser"
    /\ initState = "pending"
    /\ constructions = 1

\* C10: no call uses the LanguageParser before its init() has resolved.
C10_UsedOnlyAfterInit == \A c \in Calls : ~usedUninitialised[c]

====
